---- MODULE Spec2Model ----
(***************************************************************************)
(* A model of the useTreeSelect hook (src/src/useTreeSelect.ts): the       *)
(* sync/async trampoline, the path resolver getPathToNode, the option      *)
(* builder getOpts / parseChildNode, the equivalence matcher               *)
(* isOptionEqualToValue and the navigation handlers onChange, onKeyDown,   *)
(* onInputChange, onHighlightChange and handleOptionClick.                 *)
(*                                                                         *)
(* Representation.  A tree node of the caller-supplied type Node is a      *)
(* number 0..MaxNode (so node 0 is a falsy JavaScript value); null and     *)
(* undefined are NULL.  Inside an entry a node is a record, so that a tree *)
(* node and a FreeSoloNode can be compared: TreeNode(n) or                 *)
(* FreeSoloNode(text, parent).  An entry is an InternalOption:             *)
(* [node, type, path].  A lookup (getParent, getChildren, isBranch,        *)
(* isBranchSelectable) answers immediately or with a Promise; which one is *)
(* a property of the caller's lookup (the defer... fields of props).       *)
(***************************************************************************)
EXTENDS Integers, Sequences, FiniteSets, TLC

VARIABLES
  props,           \* the hook's props: the caller's tree and lookups, multiple, freeSolo, the overrides
  curBranch,       \* useControlled state "branch"
  curValue,        \* useControlled state "value": the selected nodes (at most one in single mode, <<>> is null)
  inputValue,      \* useControlled state "inputValue"
  selectedOption,  \* the ref selectedOption.current
  pathComp,        \* the getPathToNode computation in flight (pathArg in the hook)
  optsComp,        \* the getOpts computation in flight (handed to usePromise)
  valComp,         \* the valueResult computation in flight (handed to usePromise)
  open,            \* useControlled state "open"
  ev               \* the last call made into the code, its arguments, what it returned and the callbacks it fired

vars ==
  <<props, curBranch, curValue, inputValue, selectedOption, pathComp, optsComp,
    valComp, open, ev>>

----------------------------------------------------------------------------
(* Bounds and data *)

MaxNode == 4
MaxValues == 2
\* The lookups a walk is followed for: more than the deepest tree needs.
MaxAsked == MaxNode + 2

NULL == -1

Nodes == 0..MaxNode

FreeTexts == {"x"}

InputTexts == {""} \cup FreeTexts

\* The sets of nodes for which a lookup may answer with a Promise.
DeferSets == {{}, {0, 1}, Nodes}

TreeNode(n) == [free |-> FALSE, id |-> n, text |-> "", parent |-> NULL]

FreeSoloNode(freeSoloValue, parent) ==
  [free |-> TRUE, id |-> NULL, text |-> freeSoloValue, parent |-> parent]

InternalOption(node, type, path) == [node |-> node, type |-> type, path |-> path]

NoOption == InternalOption(TreeNode(NULL), "NONE", <<>>)

\* JavaScript truthiness of a Node | null value: null and the number 0 are falsy.
Truthy(v) == v # NULL /\ v # 0

\* String(node), the default getOptionLabel.
defaultGetOptionLabel(node) == IF node.free THEN node.text ELSE ToString(node.id)

----------------------------------------------------------------------------
(* The caller's tree: two trees the lookups getChildren / getParent walk.  *)
(* Tree 1 is  root -> [1, 2], 1 -> [3]  and answers null for a leaf.       *)
(* Tree 2 is  root -> [2, 0], 0 -> [3, 1], 3 -> [4 .. MaxNode]  and        *)
(* answers the empty list for a leaf.                                      *)
(* Tree 3 is the chain  root -> [MaxNode], n -> [n - 1]  and answers null  *)
(* for its leaf 0.                                                         *)
(* Lookup 4 is no tree: its getParent answers 2 for 1 and 1 for 2, 1 for 3 *)
(* and 3 for the nodes above it; 0 is its only node with a null parent.    *)

Trees == {1, 2, 3}

CyclicLookup == 4

ChildList(t, b) ==
  IF t = 1
  THEN (IF b = NULL THEN <<1, 2>> ELSE IF b = 1 THEN <<3>> ELSE <<>>)
  ELSE IF t = 2
  THEN (IF b = NULL THEN <<2, 0>>
        ELSE IF b = 0 THEN <<3, 1>>
        ELSE IF b = 3 THEN [i \in 1..(MaxNode - 3) |-> 3 + i]
        ELSE <<>>)
  ELSE IF t = 3
  THEN (IF b = NULL THEN <<MaxNode>> ELSE IF b > 0 THEN <<b - 1>> ELSE <<>>)
  ELSE (IF b = NULL THEN <<0>> ELSE <<>>)

ParentOf(t, n) ==
  IF t = 1
  THEN (IF n = 3 THEN 1 ELSE NULL)
  ELSE IF t = 2
  THEN (IF n \in {3, 1} THEN 0 ELSE IF n >= 4 THEN 3 ELSE NULL)
  ELSE IF t = 3
  THEN (IF n = MaxNode THEN NULL ELSE n + 1)
  ELSE (IF n = 0 THEN NULL ELSE IF n = 1 THEN 2 ELSE IF n = 2 THEN 1
        ELSE IF n = 3 THEN 1 ELSE 3)

TreeNodes(t) == IF t = 1 THEN {1, 2, 3} ELSE Nodes

\* getChildren(node): [nullish, list]; nullish is a null / undefined answer.
getChildren(b) ==
  LET kids == ChildList(props.tree, b)
  IN  [nullish |-> (props.tree # 2 /\ kids = <<>>), list |-> kids]

getParent(n) == ParentOf(props.tree, n)

isBranchSelectable(n) == n \in props.selectable

----------------------------------------------------------------------------
(* getPathToNode and the trampoline asyncOrAsyncBlock that drives it.      *)
(* A computation is [status, path, awaiting, promise, asked]: status is    *)
(* "done", "pending", "thrown" (the call raised), "rejected" (the Promise  *)
(* it returned rejected) or "running" (the loop has not ended within       *)
(* MaxAsked lookups); awaiting is the node whose getParent Promise is      *)
(* outstanding; promise tells whether the caller was handed a Promise;     *)
(* asked lists the nodes getParent was invoked on, in order.               *)

PathDone(path, promise, asked) ==
  [status |-> "done", path |-> path, awaiting |-> NULL, promise |-> promise,
   asked |-> asked]

PathPending(path, node, asked) ==
  [status |-> "pending", path |-> path, awaiting |-> node, promise |-> TRUE,
   asked |-> asked]

\* A step raised: out of the call before any suspension, and inside a then
\* callback, rejecting the Promise the caller holds, after one.
PathFailed(path, promise, asked) ==
  [status |-> IF promise THEN "rejected" ELSE "thrown", path |-> path,
   awaiting |-> NULL, promise |-> promise, asked |-> asked]

PathRunning(path, promise, asked) ==
  [status |-> "running", path |-> path, awaiting |-> NULL, promise |-> promise,
   asked |-> asked]

PathIdle ==
  [status |-> "idle", path |-> <<>>, awaiting |-> NULL, promise |-> FALSE,
   asked |-> <<>>]

RECURSIVE itLoop(_, _, _, _)
\* A variant of itLoop that puts each ancestor in front of the path.
itLoopReversed(path, answer, promise, asked) ==
  IF answer = NULL
  THEN PathDone(path, promise, asked)
  ELSE IF Len(asked) >= MaxAsked
       THEN PathRunning(<<answer>> \o path, promise, asked)
  ELSE IF answer \in props.deferParent
       THEN PathPending(<<answer>> \o path, answer, Append(asked, answer))
       ELSE IF answer \in props.failParent
       THEN PathFailed(<<answer>> \o path, promise, Append(asked, answer))
       ELSE itLoop(<<answer>> \o path, getParent(answer), promise, Append(asked, answer))

\* A variant of itLoop that ends the walk at a node it has asked before.
itLoopVisited(path, answer, promise, asked) ==
  IF answer = NULL \/ \E j \in DOMAIN asked : asked[j] = answer
  THEN PathDone(path, promise, asked)
  ELSE IF answer \in props.deferParent
       THEN PathPending(Append(path, answer), answer, Append(asked, answer))
       ELSE itLoop(Append(path, answer), getParent(answer), promise, Append(asked, answer))

\* The generator `it` from the point where the trampoline feeds `answer` back:
\*   parent = answer ?? null;
\*   while (parent !== null) { path.push(parent); parent = (yield getParent(parent)) ?? null }
\* The trampoline suspends where the yielded value is a Promise; a getParent
\* that raises ends the generator.
itLoop(path, answer, promise, asked) ==
  IF answer = NULL
  THEN PathDone(path, promise, asked)
  ELSE IF Len(asked) >= MaxAsked
       THEN PathRunning(Append(path, answer), promise, asked)
  ELSE IF answer \in props.deferParent
       THEN PathPending(Append(path, answer), answer, Append(asked, answer))
       ELSE IF answer \in props.failParent
       THEN PathFailed(Append(path, answer), promise, Append(asked, answer))
       ELSE itLoop(Append(path, answer), getParent(answer), promise, Append(asked, answer))

\* getPathToNode(toNode, getParent): the first yield is toNode.parent for a
\* FreeSoloNode (never a Promise) and getParent(toNode) otherwise.
getPathToNode(toNode) ==
  IF toNode.free
  THEN itLoop(<<>>, toNode.parent, FALSE, <<>>)
  ELSE IF toNode.id \in props.deferParent
       THEN PathPending(<<>>, toNode.id, <<toNode.id>>)
       ELSE IF toNode.id \in props.failParent
       THEN PathFailed(<<>>, FALSE, <<toNode.id>>)
       ELSE itLoop(<<>>, getParent(toNode.id), FALSE, <<toNode.id>>)

\* A variant of pathResume that resumes with an empty path.
pathResumeFresh(comp) ==
  itLoop(<<>>, getParent(comp.awaiting), TRUE, comp.asked)

\* A variant of pathResume that resumes the generator after a rejection too.
pathResumeAfterRejection(comp) ==
  itLoop(comp.path, getParent(comp.awaiting), TRUE, comp.asked)

\* The continuation result.value.then((value) => getReturn(it.next(value))):
\* it does not run when the Promise rejects, and the Promise handed to the
\* caller rejects with it.
pathResume(comp) ==
  IF comp.awaiting \in props.failParent
  THEN PathFailed(comp.path, TRUE, comp.asked)
  ELSE itLoop(comp.path, getParent(comp.awaiting), TRUE, comp.asked)

----------------------------------------------------------------------------
(* The option builder: the useMemo handed to usePromise as optionsResult.   *)
(* A computation is                                                         *)
(*   stage            "wait1" (suspended on Promise.all([pathArg,children])),*)
(*                    "wait2" (suspended on Promise.all(promises)), "done"   *)
(*   childrenPending  the getChildren Promise is outstanding                *)
(*   path, children   what the first yield delivered                        *)
(*   outer            the array `options` of the useMemo closure            *)
(*   inner            the array `options` of the closure around             *)
(*                    parseChildNode                                        *)
(*   pc               per child, where its parseChildNode generator is:     *)
(*                    "isBranch", "selectable" (suspended there), "done",   *)
(*                    "thrown" (a step raised out of the call) or           *)
(*                    "rejected" (its Promise rejected)                     *)
(*   promise          the useMemo returned a Promise                        *)
(*   result           the value the generator completed with                *)

\* The override predicate the caller may pass as isBranch.
isBranchProp(n) == ChildList(props.tree, n) # <<>>

\* isBranch: the override when supplied, else !!getChildren(node).
isBranch(n) == IF props.isBranchProp THEN isBranchProp(n) ELSE ~getChildren(n).nullish

\* isBranch(node) is a Promise: the override's, or getChildren(node).then(...).
isBranchDeferred(n) ==
  IF props.isBranchProp THEN n \in props.deferBranch ELSE n \in props.deferChildren

\* isBranch(node) fails: the override does, or getChildren(node).
isBranchFails(n) ==
  IF props.isBranchProp THEN n \in props.failBranch ELSE n \in props.failChildren

Undefined == [defined |-> FALSE, list |-> <<>>]

\* The value getOpts completes with: the generator has no return statement.
getOptsReturn(options) == Undefined

\* parseChildNode after `yield isBranchSelectable(childNode)` delivered ans.
afterSelectable(inner, childNode, path, ans) ==
  IF ~ans
  THEN [pc |-> "done", inner |-> inner]
  ELSE [pc |-> "done",
        inner |-> Append(inner, InternalOption(TreeNode(childNode), "LEAF", path))]

\* parseChildNode after `yield isBranch(childNode)` delivered ans.
afterIsBranch(inner, childNode, path, ans) ==
  IF ans
  THEN LET pushed == Append(inner, InternalOption(TreeNode(childNode), "DOWN_BRANCH", path))
       IN  IF childNode \in props.deferSel
           THEN [pc |-> "selectable", inner |-> pushed]
           ELSE IF childNode \in props.failSel
           THEN [pc |-> "thrown", inner |-> pushed]
           ELSE afterSelectable(pushed, childNode, path, isBranchSelectable(childNode))
  ELSE [pc |-> "done",
        inner |-> Append(inner, InternalOption(TreeNode(childNode), "LEAF", path))]

\* asyncOrAsyncBlock(parseChildNode(childNode)) up to its first suspension.
parseChildNode(inner, childNode, path) ==
  IF isBranchDeferred(childNode)
  THEN [pc |-> "isBranch", inner |-> inner]
  ELSE IF isBranchFails(childNode)
  THEN [pc |-> "thrown", inner |-> inner]
  ELSE afterIsBranch(inner, childNode, path, isBranch(childNode))

RECURSIVE parseChildren(_, _, _, _, _)
\* for (const childNode of children) { asyncOrAsyncBlock(parseChildNode(childNode)) ... }
\* A parseChildNode that raises out of its call ends the loop.
parseChildren(children, i, inner, pc, path) ==
  IF i > Len(children)
  THEN [pc |-> pc, inner |-> inner]
  ELSE LET r == parseChildNode(inner, children[i], path)
       IN  IF r.pc = "thrown"
           THEN [pc |-> Append(pc, r.pc), inner |-> r.inner]
           ELSE parseChildren(children, i + 1, r.inner, Append(pc, r.pc), path)

AllDone(pc) == \A i \in 1..Len(pc) : pc[i] = "done"

\* A variant of settle that waits on Promise.all(promises) even when there
\* is no promise.
settleThroughPromise(oc) ==
  IF AllDone(oc.pc)
  THEN LET options == oc.outer \o oc.inner
       IN  [oc EXCEPT !.stage = "done", !.outer = options, !.promise = TRUE,
                      !.result = getOptsReturn(options)]
  ELSE [oc EXCEPT !.stage = "wait2", !.promise = TRUE]

\* The generator has ended in a failure.
optsFailed(oc) == oc.stage \in {"thrown", "rejected"}

\* A variant of settle that takes a rejected classification for a completed
\* one.
settleIgnoringRejections(oc) ==
  IF optsFailed(oc)
  THEN oc
  ELSE IF \A i \in 1..Len(oc.pc) : oc.pc[i] \in {"done", "rejected"}
  THEN LET options == oc.outer \o oc.inner
       IN  [oc EXCEPT !.stage = "done", !.outer = options,
                      !.result = getOptsReturn(options)]
  ELSE [oc EXCEPT !.stage = "wait2", !.promise = TRUE]

\* Promise.all(promises) has resolved (or there was no promise): the inner
\* list is spread onto the outer one and the generator completes.  It
\* rejects with the first of the promises that does, and the generator is
\* not resumed.
settle(oc) ==
  IF optsFailed(oc)
  THEN oc
  ELSE IF \E i \in 1..Len(oc.pc) : oc.pc[i] = "rejected"
  THEN [oc EXCEPT !.stage = "rejected", !.promise = TRUE]
  ELSE IF AllDone(oc.pc)
  THEN LET options == oc.outer \o oc.inner
       IN  [oc EXCEPT !.stage = "done", !.outer = options,
                      !.result = getOptsReturn(options)]
  ELSE [oc EXCEPT !.stage = "wait2", !.promise = TRUE]

\* The UP_BRANCH push: if (curBranch ?? null !== null), which JavaScript
\* reads as curBranch ?? (null !== null), the truthiness of curBranch.
upBranchPush(branch, path) ==
  IF Truthy(branch)
  THEN <<InternalOption(TreeNode(branch), "UP_BRANCH", SubSeq(path, 2, Len(path)))>>
  ELSE <<>>

\* getOpts from the point where [path, children] has been delivered.
\* A parseChildNode that raised ends getOpts: out of the useMemo before any
\* suspension, as the rejection of the Promise it returned after one.
gotPathAndChildren(branch, path, children, promise) ==
  LET r == parseChildren(children, 1, <<>>, <<>>, path)
      raised == \E i \in 1..Len(r.pc) : r.pc[i] = "thrown"
  IN  settle([stage |-> IF ~raised THEN "wait2"
                        ELSE IF promise THEN "rejected" ELSE "thrown",
              childrenPending |-> FALSE, path |-> path,
              children |-> children, outer |-> upBranchPush(branch, path),
              inner |-> r.inner, pc |-> r.pc, promise |-> promise,
              result |-> Undefined])

\* A variant of pathArg that leaves curBranch out of the path.
pathArgWithoutBranch(branch, comp) == comp.path

\* pathArg: [] at the root, else the path to curBranch with curBranch unshifted.
pathArg(branch, comp) == IF branch = NULL THEN <<>> ELSE <<branch>> \o comp.path

\* The path computation the pathArg useMemo starts for a branch.
pathArgComp(branch) ==
  IF branch = NULL THEN PathDone(<<>>, FALSE, <<>>) ELSE getPathToNode(TreeNode(branch))

\* The getOpts useMemo for a branch, up to its first suspension.
getOpts(branch, comp) ==
  LET began(stage, pending, promise) ==
        [stage |-> stage, childrenPending |-> pending, path |-> <<>>,
         children |-> <<>>, outer |-> <<>>, inner |-> <<>>, pc |-> <<>>,
         promise |-> promise, result |-> Undefined]
  IN  IF branch \notin props.deferChildren /\ branch \in props.failChildren
      THEN began("thrown", FALSE, FALSE)
      ELSE IF comp.status = "pending" \/ branch \in props.deferChildren
      THEN began("wait1", branch \in props.deferChildren, TRUE)
      ELSE IF comp.status = "rejected"
      THEN began("rejected", FALSE, TRUE)
      ELSE gotPathAndChildren(branch, pathArg(branch, comp), getChildren(branch).list, FALSE)

\* Promise.all([pathArg, children]) resolves once both have.
afterWait1(branch, comp, oc) ==
  IF optsFailed(oc)
  THEN oc
  ELSE IF comp.status = "rejected"
  THEN [oc EXCEPT !.stage = "rejected"]
  ELSE IF comp.status = "pending" \/ oc.childrenPending
  THEN oc
  ELSE gotPathAndChildren(branch, pathArg(branch, comp), getChildren(branch).list, TRUE)

----------------------------------------------------------------------------
(* What a render derives from the state. *)

IdleOpts ==
  [stage |-> "idle", childrenPending |-> FALSE, path |-> <<>>, children |-> <<>>,
   outer |-> <<>>, inner |-> <<>>, pc |-> <<>>, promise |-> FALSE,
   result |-> Undefined]

\* usePromise: { data, loading } of a computation; data is undefined until
\* the computation has completed, and is then the value it completed with.
usePromise(completed, data) ==
  [data |-> IF completed THEN data ELSE Undefined, loading |-> ~completed]

pathResult ==
  usePromise(pathComp.status = "done",
             [defined |-> TRUE, list |-> pathArg(curBranch, pathComp)])

optionsResult == usePromise(optsComp.stage = "done", optsComp.result)

\* The valueResult useMemo for the held nodes cv (<<>> in single mode is
\* null): one getPathToNode computation per held node, each run up to its
\* first suspension.  isNull: the memo returned null; promise: it returned a
\* Promise (of the entry in single mode, Promise.all(multiValue) in multiple).
valueResultMemo(cv) ==
  LET items == [i \in DOMAIN cv |-> getPathToNode(cv[i])]
  IN  [isNull |-> (~props.multiple /\ cv = <<>>), nodes |-> cv, items |-> items,
       promise |-> \E i \in DOMAIN items : items[i].status = "pending"]

ValIdle == [isNull |-> TRUE, nodes |-> <<>>, items |-> <<>>, promise |-> FALSE]

\* A variant of valueCompleted that takes the first resolved path for all.
valueCompletedAny ==
  \/ valComp.items = <<>>
  \/ \E i \in DOMAIN valComp.items : valComp.items[i].status = "done"

\* The Promise the memo returned has resolved (or it returned no Promise).
valueCompleted == \A i \in DOMAIN valComp.items : valComp.items[i].status = "done"

\* new InternalOption(node, NodeType.LEAF, path) for every held node, in order.
valueEntries ==
  [i \in DOMAIN valComp.nodes |->
     InternalOption(valComp.nodes[i], "LEAF", valComp.items[i].path)]

valueResult ==
  usePromise(valueCompleted, [defined |-> ~valComp.isNull, list |-> valueEntries])

\* The value useMemo: valueResult.data, or while there is none the held nodes
\* as LEAF entries with an empty path.
value ==
  IF valueResult.data.defined
  THEN valueResult.data.list
  ELSE [i \in DOMAIN curValue |-> InternalOption(curValue[i], "LEAF", <<>>)]

\* The loadingOptions the hook returns.
loadingOptions == pathResult.loading \/ optionsResult.loading

\* The caller's isOptionEqualToValue override, applied to two nodes.
isOptionEqualToValueProp(a, b) ==
  IF props.eqProp = "always" THEN TRUE ELSE a.free = b.free /\ a.id = b.id /\ a.text = b.text

\* A variant of isOptionEqualToValue that compares tree nodes without their paths.
isOptionEqualToValueNoPath(option, val) ==
  IF \/ option.type \in {"UP_BRANCH", "DOWN_BRANCH"}
     \/ val.type \in {"UP_BRANCH", "DOWN_BRANCH"}
  THEN FALSE
  ELSE IF props.eqProp # "none"
       THEN isOptionEqualToValueProp(option.node, val.node)
       ELSE option.node = val.node

\* A variant of isOptionEqualToValue that does not compare the lengths of
\* the two paths.
isOptionEqualToValueNoLength(option, val) ==
  IF \/ option.type \in {"UP_BRANCH", "DOWN_BRANCH"}
     \/ val.type \in {"UP_BRANCH", "DOWN_BRANCH"}
  THEN FALSE
  ELSE IF props.eqProp # "none"
       THEN isOptionEqualToValueProp(option.node, val.node)
       ELSE IF option.node.free
            THEN val.node.free /\ val.node.text = option.node.text
                   /\ option.node.parent = val.node.parent
            ELSE IF val.node.free THEN FALSE
                 ELSE /\ option.node = val.node
                      /\ \A i \in DOMAIN option.path :
                           i \in DOMAIN val.path /\ option.path[i] = val.path[i]

\* A variant of isOptionEqualToValue that consults the override before the
\* entry types.
isOptionEqualToValueOverrideFirst(option, val) ==
  LET optionNode ==
        IF props.multiple /\ props.freeSolo /\ option.type = "STRING"
        THEN FreeSoloNode(option.node.text, curBranch)
        ELSE IF option.type = "STRING" THEN TreeNode(NULL) ELSE option.node
  IN  IF props.eqProp # "none"
      THEN isOptionEqualToValueProp(optionNode, val.node)
      ELSE IF \/ option.type \in {"UP_BRANCH", "DOWN_BRANCH"}
              \/ val.type \in {"UP_BRANCH", "DOWN_BRANCH"}
           THEN FALSE
           ELSE IF optionNode.free
                THEN val.node.free /\ val.node.text = optionNode.text
                       /\ optionNode.parent = val.node.parent
                ELSE IF val.node.free THEN FALSE
                     ELSE option.node = val.node /\ option.path = val.path

\* An option of type "STRING" is the raw input string the host passes in
\* place of an entry (typeof option === "string"): its text is carried in
\* node.text, and its option.node is undefined, which equals no value's node.
isOptionEqualToValue(option, val) ==
  IF \/ option.type \in {"UP_BRANCH", "DOWN_BRANCH"}
     \/ val.type \in {"UP_BRANCH", "DOWN_BRANCH"}
  THEN FALSE
  ELSE LET optionNode ==
             IF props.multiple /\ props.freeSolo /\ option.type = "STRING"
             THEN FreeSoloNode(option.node.text, curBranch)
             ELSE IF option.type = "STRING" THEN TreeNode(NULL) ELSE option.node
       IN  IF props.eqProp # "none"
           THEN isOptionEqualToValueProp(optionNode, val.node)
           ELSE IF optionNode.free
                THEN val.node.free /\ val.node.text = optionNode.text
                       /\ optionNode.parent = val.node.parent
                ELSE IF val.node.free THEN FALSE
                     ELSE /\ optionNode = val.node
                          /\ option.type # "STRING"
                          /\ Len(option.path) = Len(val.path)
                          /\ \A i \in DOMAIN option.path : option.path[i] = val.path[i]

getOptionLabel(option) == defaultGetOptionLabel(option.node)

\* The options useMemo.
options ==
  IF optionsResult.data.defined
  THEN IF /\ props.freeSolo
          /\ inputValue # ""
          /\ (props.multiple \/ value = <<>> \/ getOptionLabel(value[1]) # inputValue)
       THEN LET freeSoloOption ==
                  InternalOption(FreeSoloNode(inputValue, curBranch), "LEAF",
                                 IF pathResult.data.defined THEN pathResult.data.list
                                 ELSE <<>>)
            IN  IF \A i \in DOMAIN value :
                     ~(value[i].node.free /\ isOptionEqualToValue(freeSoloOption, value[i]))
                THEN Append(optionsResult.data.list, freeSoloOption)
                ELSE optionsResult.data.list
       ELSE optionsResult.data.list
  ELSE IF curBranch = NULL
       THEN <<>>
       ELSE <<InternalOption(TreeNode(curBranch), "UP_BRANCH", <<>>)>>

Range(f) == {f[i] : i \in DOMAIN f}

\* The entries a host can hand to the handlers: those the hook exposes and
\* those the option builder assembled for the active branch.
HostOptions ==
  Range(options) \cup (IF optsComp.stage = "done" THEN Range(optsComp.outer) ELSE {})

----------------------------------------------------------------------------
(* filterOptions(options, state).  The caller's filterOptions prop is       *)
(* external: matched is the node list it answered with for the keys.        *)

\* A variant of filterGroup that files entries by their type alone.
filterGroupByType(option) ==
  IF option.type = "UP_BRANCH" THEN "upBranch"
  ELSE IF option.type = "DOWN_BRANCH" THEN "branchOptionsMap"
  ELSE "leafOptionsMap"

\* The group the reduce of filterOptions files an entry under.
filterGroup(option) ==
  IF option.type = "UP_BRANCH" THEN "upBranch"
  ELSE IF option.node.free THEN "freeSoloOptions"
  ELSE IF option.type = "DOWN_BRANCH" THEN "branchOptionsMap"
  ELSE "leafOptionsMap"

\* The entries of one group, in input order.
filterGroupOf(opts, group) == SelectSeq(opts, LAMBDA o : filterGroup(o) = group)

\* Array.from(optionKeys): the nodes of the keyed entries, each once, in the
\* order of their first insertion.
optionKeys(opts) ==
  LET keyed(i) == filterGroup(opts[i]) \in {"branchOptionsMap", "leafOptionsMap"}
      first(i) == keyed(i) /\ \A j \in 1..(i - 1) : ~(keyed(j) /\ opts[j].node = opts[i].node)
      idx == SelectSeq([i \in DOMAIN opts |-> i], first)
  IN  [k \in DOMAIN idx |-> opts[idx[k]].node]

\* map.get(node) on one of the two Maps: the entry set last for the node, or
\* NoOption for undefined.
filterMapGet(opts, group, node) ==
  LET at == {i \in DOMAIN opts : filterGroup(opts[i]) = group /\ opts[i].node = node}
  IN  IF at = {} THEN NoOption
      ELSE opts[CHOOSE i \in at : \A j \in at : j <= i]

\* The condition under which filterOptions returns its input untouched.
\* A variant of filterBypass that does not compare the label of the selection
\* with the input text.
filterBypassWithoutLabel(opts, stateInput) ==
  /\ ~props.multiple
  /\ value # <<>>
  /\ \A i \in DOMAIN opts : ~isOptionEqualToValue(opts[i], value[1])

filterBypass(opts, stateInput) ==
  /\ ~props.multiple
  /\ value # <<>>
  /\ getOptionLabel(value[1]) = stateInput
  /\ \A i \in DOMAIN opts : ~isOptionEqualToValue(opts[i], value[1])

\* A variant of filteredOptions that keeps the entries in the order of the
\* answer, the branch entry of a node right before its leaf entry.
filteredOptionsInAnswerOrder(opts, matched) ==
  LET pair(k) == <<filterMapGet(opts, "branchOptionsMap", matched[k]),
                   filterMapGet(opts, "leafOptionsMap", matched[k])>>
      flat == [n \in 1..(2 * Len(matched)) |-> pair((n + 1) \div 2)[2 - (n % 2)]]
  IN  SelectSeq(flat, LAMBDA o : o # NoOption)

\* The filteredOptions of filterOptions: the entries of the matched nodes,
\* branch entries ahead of leaf entries.
filteredOptions(opts, matched) ==
  LET got(group) == [k \in DOMAIN matched |-> filterMapGet(opts, group, matched[k])]
      branchOptions == SelectSeq(got("branchOptionsMap"), LAMBDA o : o # NoOption)
      leafOptions == SelectSeq(got("leafOptionsMap"), LAMBDA o : o # NoOption)
  IN  branchOptions \o leafOptions

\* [called: filterOptionsProp was called, keys: its first argument,
\*  noOptions: the value written to noOptions.current, result: the return].
filterOptions(opts, stateInput, matched) ==
  LET upBranch == filterGroupOf(opts, "upBranch")
      freeSoloOptions == filterGroupOf(opts, "freeSoloOptions")
  IN  IF filterBypass(opts, stateInput)
      THEN [called |-> FALSE, keys |-> <<>>, noOptions |-> "unchanged", result |-> opts]
      ELSE [called |-> TRUE, keys |-> optionKeys(opts),
            noOptions |-> IF filteredOptions(opts, matched) = <<>> /\ freeSoloOptions = <<>>
                          THEN "true" ELSE "false",
            result |-> (IF upBranch = <<>> THEN <<>> ELSE <<upBranch[Len(upBranch)]>>)
                         \o filteredOptions(opts, matched) \o freeSoloOptions]

----------------------------------------------------------------------------
(* A render of the hook for a branch: the pathArg and optionsResult memos   *)
(* run up to their first suspension.                                        *)

Render(branch) ==
  /\ pathComp' = pathArgComp(branch)
  /\ optsComp' = getOpts(branch, pathArgComp(branch))

\* setBranch(node): useControlled's setter; an unchanged branch starts nothing.
setBranch(node) ==
  IF node = curBranch
  THEN UNCHANGED <<curBranch, pathComp, optsComp>>
  ELSE /\ curBranch' = node
       /\ Render(node)

\* The first render, with defaultBranch.
Mount(defaultBranch) ==
  /\ optsComp.stage = "idle"
  /\ curBranch' = defaultBranch
  /\ Render(defaultBranch)
  /\ valComp' = valueResultMemo(curValue)
  /\ ev' = [op |-> "render"]
  /\ UNCHANGED <<props, open, curValue, inputValue, selectedOption>>

(* The Promises of the lookups resolve or reject, one per step. *)

\* A step that raises inside a then callback rejects the Promise of its
\* parseChildNode.
inThen(pc) == IF pc = "thrown" THEN "rejected" ELSE pc

ResolveParent ==
  /\ optsComp.stage # "idle"
  /\ pathComp.status = "pending"
  /\ pathComp' = pathResume(pathComp)
  /\ optsComp' = afterWait1(curBranch, pathResume(pathComp), optsComp)
  /\ ev' = [op |-> "resolve"]
  /\ UNCHANGED <<props, open, valComp, curBranch, curValue, inputValue, selectedOption>>

ResolveChildren ==
  /\ optsComp.stage \in {"wait1", "rejected"}
  /\ optsComp.childrenPending
  /\ optsComp' = IF curBranch \in props.failChildren
                 THEN [optsComp EXCEPT !.childrenPending = FALSE, !.stage = "rejected"]
                 ELSE afterWait1(curBranch, pathComp,
                                 [optsComp EXCEPT !.childrenPending = FALSE])
  /\ ev' = [op |-> "resolve"]
  /\ UNCHANGED <<props, open, valComp, curBranch, curValue, inputValue, selectedOption, pathComp>>

ResolveIsBranch(i) ==
  /\ optsComp.stage \in {"wait2", "thrown", "rejected"}
  /\ optsComp.pc[i] = "isBranch"
  /\ LET r == IF isBranchFails(optsComp.children[i])
              THEN [pc |-> "rejected", inner |-> optsComp.inner]
              ELSE afterIsBranch(optsComp.inner, optsComp.children[i], optsComp.path,
                                 isBranch(optsComp.children[i]))
     IN  optsComp' = settle([optsComp EXCEPT !.inner = r.inner, !.pc[i] = inThen(r.pc)])
  /\ ev' = [op |-> "resolve"]
  /\ UNCHANGED <<props, open, valComp, curBranch, curValue, inputValue, selectedOption, pathComp>>

ResolveSelectable(i) ==
  /\ optsComp.stage \in {"wait2", "thrown", "rejected"}
  /\ optsComp.pc[i] = "selectable"
  /\ LET r == IF optsComp.children[i] \in props.failSel
              THEN [pc |-> "rejected", inner |-> optsComp.inner]
              ELSE afterSelectable(optsComp.inner, optsComp.children[i], optsComp.path,
                                  isBranchSelectable(optsComp.children[i]))
     IN  optsComp' = settle([optsComp EXCEPT !.inner = r.inner, !.pc[i] = r.pc])
  /\ ev' = [op |-> "resolve"]
  /\ UNCHANGED <<props, open, valComp, curBranch, curValue, inputValue, selectedOption, pathComp>>

\* A getParent Promise of the i-th held node's path resolves.
ResolveValue(i) ==
  /\ valComp.items[i].status = "pending"
  /\ valComp' = [valComp EXCEPT !.items[i] = pathResume(valComp.items[i])]
  /\ ev' = [op |-> "resolve"]
  /\ UNCHANGED <<props, open, curBranch, curValue, inputValue, selectedOption,
                 pathComp, optsComp>>

----------------------------------------------------------------------------
(* The handlers.  ev.calls lists the callbacks and setters a handler        *)
(* invoked, in order.                                                       *)

Call(fn, node, text, tag, val) ==
  [fn |-> fn, node |-> node, text |-> text, tag |-> tag, value |-> val]

onHighlightChange(option) ==
  /\ optsComp.stage # "idle"
  /\ selectedOption' = option
  /\ ev' = [op |-> "onHighlightChange", option |-> option,
            calls |-> <<Call("onHighlightChange",
                             IF option = NoOption THEN TreeNode(NULL) ELSE option.node,
                             "", "", <<>>)>>]
  /\ UNCHANGED <<props, open, valComp, curBranch, curValue, inputValue, pathComp, optsComp>>

handleOptionClick(branchOption) ==
  /\ optsComp.stage # "idle"
  /\ selectedOption' = branchOption
  /\ ev' = [op |-> "handleOptionClick", option |-> branchOption, calls |-> <<>>]
  /\ UNCHANGED <<props, open, valComp, curBranch, curValue, inputValue, pathComp, optsComp>>

\* A variant of inputChangeText that rewrites the text whatever the reason.
inputChangeTextAnyReason(text, reason) ==
  IF selectedOption # NoOption /\ selectedOption.type # "LEAF"
  THEN IF props.multiple \/ value = <<>> THEN "" ELSE getOptionLabel(value[1])
  ELSE text

\* The text onInputChange stores: a "reset" while a branch entry is the last
\* highlighted or clicked one is rewritten.
inputChangeText(text, reason) ==
  IF selectedOption # NoOption /\ selectedOption.type # "LEAF" /\ reason = "reset"
  THEN IF props.multiple \/ value = <<>> THEN "" ELSE getOptionLabel(value[1])
  ELSE text

inputChangeCalls(text, reason) ==
  <<Call("onInputChange", TreeNode(NULL), inputChangeText(text, reason), reason, <<>>),
    Call("setInputValue", TreeNode(NULL), inputChangeText(text, reason), "", <<>>)>>

onInputChange(text, reason) ==
  /\ optsComp.stage # "idle"
  /\ inputValue' = inputChangeText(text, reason)
  /\ ev' = [op |-> "onInputChange", text |-> text, reason |-> reason,
            calls |-> inputChangeCalls(text, reason)]
  /\ UNCHANGED <<props, open, valComp, curBranch, curValue, selectedOption, pathComp, optsComp>>

branchCalls(node, direction) ==
  <<Call("onBranchChange", TreeNode(node), "", direction, <<>>),
    Call("setBranch", TreeNode(node), "", "", <<>>)>>

\* The node an UP_BRANCH entry leads to: option.path[0] ?? null.
upTarget(option) == IF option.path = <<>> THEN NULL ELSE option.path[1]

\* onKeyDown: composing is event.which == 229.
onKeyDown(key, composing) ==
  /\ optsComp.stage # "idle"
  /\ IF selectedOption = NoOption \/ selectedOption.type = "LEAF" \/ composing
     THEN /\ ev' = [op |-> "onKeyDown", key |-> key, composing |-> composing,
                    option |-> selectedOption,
                    acted |-> FALSE, calls |-> <<>>]
          /\ UNCHANGED <<curBranch, inputValue, pathComp, optsComp>>
     ELSE IF key = "ArrowRight" /\ selectedOption.type = "DOWN_BRANCH"
     THEN /\ inputValue' = inputChangeText("", "reset")
          /\ setBranch(selectedOption.node.id)
          /\ ev' = [op |-> "onKeyDown", key |-> key, composing |-> composing,
                    option |-> selectedOption,
                    acted |-> TRUE,
                    calls |-> inputChangeCalls("", "reset")
                                \o branchCalls(selectedOption.node.id, "down")]
     ELSE IF key = "ArrowLeft" /\ selectedOption.type = "UP_BRANCH"
     THEN /\ inputValue' = inputChangeText("", "reset")
          /\ setBranch(upTarget(selectedOption))
          /\ ev' = [op |-> "onKeyDown", key |-> key, composing |-> composing,
                    option |-> selectedOption,
                    acted |-> TRUE,
                    calls |-> inputChangeCalls("", "reset")
                                \o branchCalls(upTarget(selectedOption), "up")]
     ELSE /\ ev' = [op |-> "onKeyDown", key |-> key, composing |-> composing,
                    option |-> selectedOption,
                    acted |-> FALSE, calls |-> <<>>]
          /\ UNCHANGED <<curBranch, inputValue, pathComp, optsComp>>
  /\ UNCHANGED <<props, open, valComp, curValue, selectedOption>>

\* What the host passes as the newest raw value of a change event: an entry,
\* a free-text string, or nothing (removeOption, clear).
RawOption(option) == [kind |-> "option", option |-> option, str |-> ""]
RawString(str) == [kind |-> "string", option |-> NoOption, str |-> str]
RawNone == [kind |-> "none", option |-> NoOption, str |-> ""]

NodesOf(entries) == [i \in DOMAIN entries |-> entries[i].node]

\* Variants of handleBranchChange: one that takes a LEAF entry for a branch
\* entry, one that reports every move as "up".
handleBranchChangeLeaf(option) ==
  [handled |-> option.type \in {"UP_BRANCH", "DOWN_BRANCH", "LEAF"},
   node |-> IF option.type = "UP_BRANCH" THEN upTarget(option) ELSE option.node.id,
   direction |-> IF option.type = "UP_BRANCH" THEN "up" ELSE "down"]

handleBranchChangeUp(option) ==
  [handled |-> option.type \in {"UP_BRANCH", "DOWN_BRANCH"},
   node |-> IF option.type = "UP_BRANCH" THEN upTarget(option) ELSE option.node.id,
   direction |-> "up"]

\* A variant of handleBranchChange that handles DOWN_BRANCH entries only.
handleBranchChangeDownOnly(option) ==
  [handled |-> option.type = "DOWN_BRANCH",
   node |-> option.node.id,
   direction |-> "down"]

\* handleBranchChange: whether the entry is a branch entry, and where it leads.

handleBranchChange(option) ==
  [handled |-> option.type \in {"UP_BRANCH", "DOWN_BRANCH"},
   node |-> IF option.type = "UP_BRANCH" THEN upTarget(option) ELSE option.node.id,
   direction |-> IF option.type = "UP_BRANCH" THEN "up" ELSE "down"]

Navigate(b) == [branch |-> TRUE, node |-> b.node, direction |-> b.direction,
                commit |-> FALSE, values |-> <<>>, reason |-> ""]

Commit(values, reason) == [branch |-> FALSE, node |-> NULL, direction |-> "",
                           commit |-> TRUE, values |-> values, reason |-> reason]

\* A variant of createValues that puts the new node ahead of the held ones.
createValuesAhead(prior, raw) ==
  IF props.multiple
  THEN <<FreeSoloNode(raw.str, curBranch)>> \o NodesOf(prior)
  ELSE <<FreeSoloNode(raw.str, curBranch)>>

\* The values of case "createOption": the nodes of the entries ahead of the
\* typed string, then new FreeSoloNode(freeSoloValue, curBranch).
createValues(prior, raw) ==
  IF props.multiple
  THEN Append(NodesOf(prior), FreeSoloNode(raw.str, curBranch))
  ELSE <<FreeSoloNode(raw.str, curBranch)>>

\* A variant of blurReason that always re-dispatches as selectOption.
blurReasonSelect(raw) == "selectOption"

\* The reason a "blur" change is re-dispatched with.
blurReason(raw) == IF raw.kind = "string" THEN "createOption" ELSE "selectOption"

RECURSIVE handleChange(_, _, _, _)
\* handleChange(args, reasonIsBlur): prior are the entries of the raw value
\* array before the newest one (multiple mode), raw the newest raw value.
handleChange(prior, raw, reason, reasonIsBlur) ==
  LET out == IF reasonIsBlur THEN "blur" ELSE reason
  IN  IF reason = "selectOption"
      THEN IF handleBranchChange(raw.option).handled
           THEN Navigate(handleBranchChange(raw.option))
           ELSE IF props.multiple
                THEN Commit(NodesOf(Append(prior, raw.option)), out)
                ELSE Commit(<<raw.option.node>>, out)
      ELSE IF reason = "createOption"
      THEN Commit(createValues(prior, raw), out)
      ELSE IF reason = "blur"
      THEN handleChange(prior, raw, blurReason(raw), TRUE)
      ELSE IF props.multiple
           THEN Commit(NodesOf(prior), reason)
           ELSE Commit(<<>>, out)

\* The option a host passes to isOptionEqualToValue for a raw value: the
\* entry, or the typed string itself.
RawEntry(raw) ==
  IF raw.kind = "string"
  THEN InternalOption(FreeSoloNode(raw.str, NULL), "STRING", <<>>)
  ELSE raw.option

\* The change events a host sends: the raw value that goes with each reason;
\* in multiple mode a value is added only if it is equal to none already held.
ValidChange(prior, raw, reason) ==
  /\ reason = "selectOption" => raw.kind = "option"
  /\ reason = "createOption" => raw.kind = "string"
  /\ reason = "blur" => raw.kind \in {"option", "string"}
  /\ reason \in {"removeOption", "clear"} => raw.kind = "none"
  /\ raw.kind = "string" => props.freeSolo
  /\ IF ~props.multiple THEN prior = <<>>
     ELSE IF reason = "clear" THEN prior = <<>>
     ELSE IF reason = "removeOption"
          THEN \E k \in DOMAIN value :
                 prior = [i \in 1..(Len(value) - 1) |->
                            IF i < k THEN value[i] ELSE value[i + 1]]
          ELSE /\ prior = value /\ Len(value) < MaxValues
               /\ \A i \in DOMAIN value : ~isOptionEqualToValue(RawEntry(raw), value[i])

onChange(prior, raw, reason) ==
  /\ optsComp.stage # "idle"
  /\ ValidChange(prior, raw, reason)
  /\ LET r == handleChange(prior, raw, reason, FALSE)
     IN  IF r.branch
         THEN /\ setBranch(r.node)
              /\ ev' = [op |-> "onChange", reason |-> reason, prior |-> prior, raw |-> raw,
                        calls |-> branchCalls(r.node, r.direction)]
              /\ UNCHANGED <<curValue, valComp>>
         ELSE /\ curValue' = r.values
              /\ valComp' = IF ~props.multiple /\ r.values = curValue
                             THEN valComp
                             ELSE valueResultMemo(r.values)
              /\ ev' = [op |-> "onChange", reason |-> reason, prior |-> prior, raw |-> raw,
                        calls |-> <<Call("onChange", TreeNode(NULL), "", r.reason, r.values),
                                    Call("setValue", TreeNode(NULL), "", "", r.values)>>]
              /\ UNCHANGED <<curBranch, pathComp, optsComp>>
  /\ UNCHANGED <<props, open, inputValue, selectedOption>>

\* onClose(event, reason): a selectOption close is dropped while the entry
\* last highlighted or clicked is a branch entry.
onClose(reason) ==
  /\ optsComp.stage # "idle"
  /\ IF reason = "selectOption" /\ selectedOption # NoOption /\ selectedOption.type # "LEAF"
     THEN /\ ev' = [op |-> "onClose", reason |-> reason, calls |-> <<>>]
          /\ UNCHANGED open
     ELSE /\ open' = FALSE
          /\ ev' = [op |-> "onClose", reason |-> reason,
                    calls |-> <<Call("onClose", TreeNode(NULL), "", reason, <<>>),
                                Call("setOpen", TreeNode(NULL), "", "false", <<>>)>>]
  /\ UNCHANGED <<props, valComp, curBranch, curValue, inputValue, selectedOption,
                 pathComp, optsComp>>

\* onOpen(event).
onOpen ==
  /\ optsComp.stage # "idle"
  /\ open' = TRUE
  /\ ev' = [op |-> "onOpen",
            calls |-> <<Call("onOpen", TreeNode(NULL), "", "", <<>>),
                        Call("setOpen", TreeNode(NULL), "", "true", <<>>)>>]
  /\ UNCHANGED <<props, valComp, curBranch, curValue, inputValue, selectedOption,
                 pathComp, optsComp>>

----------------------------------------------------------------------------
(* The props the specifications draw from. *)

SelectableSets == {{}, {1, 3}}

\* getChildren answers with a Promise for these branches (NULL is the root).
ChildDeferSets == {{}, {NULL}, Nodes \cup {NULL}}

\* The defaults: a synchronous caller without overrides.
DefaultProps ==
  [tree |-> 1, multiple |-> FALSE, freeSolo |-> FALSE, isBranchProp |-> FALSE,
   selectable |-> {}, eqProp |-> "none",
   deferParent |-> {}, deferChildren |-> {}, deferBranch |-> {}, deferSel |-> {},
   failParent |-> {}, failChildren |-> {}, failBranch |-> {}, failSel |-> {}]

\* A caller all of whose lookups answer with Promises.
Deferred(p) ==
  [p EXCEPT !.deferParent = Nodes, !.deferChildren = Nodes \cup {NULL},
            !.deferBranch = Nodes, !.deferSel = Nodes]

PathProps ==
  {[DefaultProps EXCEPT !.tree = t, !.deferParent = d] : t \in Trees, d \in SUBSET Nodes}

OptsProps ==
  {[DefaultProps EXCEPT !.tree = t, !.isBranchProp = o, !.selectable = s,
                        !.deferParent = dp, !.deferChildren = dc,
                        !.deferBranch = db, !.deferSel = ds] :
     t \in Trees, o \in BOOLEAN, s \in SelectableSets,
     dp \in DeferSets, dc \in ChildDeferSets, db \in DeferSets, ds \in DeferSets}

\* Single and multiple mode, with and without free solo, over synchronous
\* and deferred callers.
MainProps ==
  LET P(t, m, f) == [DefaultProps EXCEPT !.tree = t, !.multiple = m, !.freeSolo = f,
                                         !.selectable = {1, 3, 4}]
  IN  {Deferred(P(1, FALSE, FALSE)), P(1, TRUE, TRUE),
       P(2, FALSE, TRUE), P(2, TRUE, FALSE)}

EqProps ==
  {[DefaultProps EXCEPT !.multiple = m, !.freeSolo = f, !.eqProp = e] :
     m \in BOOLEAN, f \in BOOLEAN, e \in {"none", "always", "sameNode"}}

Unmounted ==
  /\ curBranch = NULL
  /\ curValue = <<>>
  /\ inputValue = ""
  /\ selectedOption = NoOption
  /\ pathComp = PathIdle
  /\ optsComp = IdleOpts
  /\ valComp = ValIdle
  /\ open = FALSE
  /\ ev = [op |-> "init"]

Resolve ==
  \/ ResolveParent
  \/ ResolveChildren
  \/ \E i \in DOMAIN optsComp.pc : ResolveIsBranch(i)
  \/ \E i \in DOMAIN optsComp.pc : ResolveSelectable(i)

----------------------------------------------------------------------------
(* Spec: the hook, mounted with any default branch, its navigation and      *)
(* selection handlers called in any order with the entries a host can hold, *)
(* its Promises resolving in any order.                                     *)

Init == props \in MainProps /\ Unmounted

InputReasons == {"input", "reset", "clear"}

Keys == {"ArrowRight", "ArrowLeft", "Enter"}

ChangeReasons == {"selectOption", "createOption", "blur", "removeOption", "clear"}

CloseReasons == {"selectOption", "blur", "escape"}

RawValues ==
  {RawOption(o) : o \in HostOptions} \cup {RawString(s) : s \in FreeTexts} \cup {RawNone}

\* The raw value arrays a host can send ahead of the newest value: the
\* current value entries, or those with one removed.
Priors ==
  {<<>>, value}
    \cup {[i \in 1..(Len(value) - 1) |-> IF i < k THEN value[i] ELSE value[i + 1]] :
            k \in DOMAIN value}

Next ==
  \/ \E b \in TreeNodes(props.tree) \cup {NULL} : Mount(b)
  \/ Resolve
  \/ \E o \in HostOptions \cup {NoOption} : onHighlightChange(o)
  \/ \E o \in HostOptions : handleOptionClick(o)
  \/ \E text \in InputTexts, reason \in InputReasons : onInputChange(text, reason)
  \/ \E key \in Keys, composing \in BOOLEAN : onKeyDown(key, composing)
  \/ \E prior \in Priors, raw \in RawValues, reason \in ChangeReasons :
       onChange(prior, raw, reason)
  \/ \E i \in DOMAIN valComp.items : ResolveValue(i)

Spec == Init /\ [][Next]_vars

----------------------------------------------------------------------------
(* SpecClose: the menu.  The highlight, option-click, change, close and     *)
(* open handlers called in any order over a synchronous caller.             *)

CloseProps ==
  {[DefaultProps EXCEPT !.multiple = m, !.freeSolo = m, !.selectable = {1, 3}] :
     m \in BOOLEAN}

InitClose == props \in CloseProps /\ Unmounted

NextClose ==
  \/ \E b \in TreeNodes(props.tree) \cup {NULL} : Mount(b)
  \/ \E o \in HostOptions \cup {NoOption} : onHighlightChange(o)
  \/ \E o \in HostOptions : handleOptionClick(o)
  \/ \E prior \in Priors, raw \in RawValues, reason \in ChangeReasons :
       onChange(prior, raw, reason)
  \/ \E reason \in CloseReasons : onClose(reason)
  \/ onOpen

SpecClose == InitClose /\ [][NextClose]_vars

----------------------------------------------------------------------------
(* SpecOpts: the option builder alone, for every branch of every tree and   *)
(* every order in which the Promises resolve.                               *)

InitOpts == props \in OptsProps /\ Unmounted

NextOpts ==
  \/ \E b \in TreeNodes(props.tree) \cup {NULL} : Mount(b)
  \/ Resolve

SpecOpts == InitOpts /\ [][NextOpts]_vars

----------------------------------------------------------------------------
(* SpecPath: getPathToNode called on any tree node or FreeSoloNode, its     *)
(* Promises resolved one by one.                                            *)

PathTargets ==
  {TreeNode(n) : n \in TreeNodes(props.tree)}
    \cup {FreeSoloNode(s, p) : s \in FreeTexts, p \in TreeNodes(props.tree) \cup {NULL}}

InitPath == props \in PathProps /\ Unmounted

PathCall(toNode) ==
  /\ pathComp.status \notin {"pending", "running"}
  /\ pathComp' = getPathToNode(toNode)
  /\ ev' = [op |-> "getPathToNode", toNode |-> toNode, resolved |-> 0]
  /\ UNCHANGED <<props, open, valComp, curBranch, curValue, inputValue, selectedOption, optsComp>>

PathResolve ==
  /\ pathComp.status = "pending"
  /\ pathComp' = pathResume(pathComp)
  /\ ev' = [ev EXCEPT !.resolved = @ + 1]
  /\ UNCHANGED <<props, open, valComp, curBranch, curValue, inputValue, selectedOption, optsComp>>

NextPath ==
  \/ \E toNode \in PathTargets : PathCall(toNode)
  \/ PathResolve

SpecPath == InitPath /\ [][NextPath]_vars

----------------------------------------------------------------------------
(* SpecTramp: getPathToNode over a getParent that fails for one node, by    *)
(* raising when it answers at once and by rejecting its Promise otherwise.  *)

TrampProps ==
  {[DefaultProps EXCEPT !.tree = t, !.deferParent = d, !.failParent = {f}] :
     t \in {1, 3}, d \in SUBSET Nodes, f \in Nodes}

InitTramp == props \in TrampProps /\ Unmounted

SpecTramp == InitTramp /\ [][NextPath]_vars

----------------------------------------------------------------------------
(* SpecEq: isOptionEqualToValue applied to any two entries, with and        *)
(* without the caller's override.                                           *)

EqPaths == {<<>>, <<1>>, <<3, 1>>}

EqNodes ==
  {TreeNode(1), TreeNode(3), FreeSoloNode("x", NULL), FreeSoloNode("x", 1),
   FreeSoloNode("y", 1)}

EqEntries ==
  {InternalOption(n, t, p) :
     n \in EqNodes, t \in {"LEAF", "DOWN_BRANCH", "UP_BRANCH"}, p \in EqPaths}

InitEq ==
  /\ props \in EqProps
  /\ curBranch \in {NULL, 1}
  /\ curValue = <<>>
  /\ inputValue = ""
  /\ selectedOption = NoOption
  /\ pathComp = PathIdle
  /\ optsComp = IdleOpts
  /\ valComp = ValIdle
  /\ open = FALSE
  /\ ev = [op |-> "init"]

Compare(option, val) ==
  /\ ev.op = "init"
  /\ ev' = [op |-> "isOptionEqualToValue", option |-> option, value |-> val,
            result |-> isOptionEqualToValue(option, val)]
  /\ UNCHANGED <<props, open, valComp, curBranch, curValue, inputValue, selectedOption, pathComp, optsComp>>

NextEq == \E option \in EqEntries, val \in EqEntries : Compare(option, val)

SpecEq == InitEq /\ [][NextEq]_vars

----------------------------------------------------------------------------
(* SpecFilter: filterOptions applied once to any list of distinct entries   *)
(* with at most one UpBranch entry, for any query text, any held selection  *)
(* and any answer of the caller's filterOptions prop.                       *)

FilterProps ==
  {[DefaultProps EXCEPT !.multiple = m, !.freeSolo = TRUE] : m \in BOOLEAN}

FilterPool ==
  {InternalOption(TreeNode(1), "UP_BRANCH", <<>>),
   InternalOption(TreeNode(2), "DOWN_BRANCH", <<1>>),
   InternalOption(TreeNode(2), "LEAF", <<1>>),
   InternalOption(TreeNode(3), "LEAF", <<1>>),
   InternalOption(FreeSoloNode("x", 1), "LEAF", <<1>>)}

MaxEntries == 4

\* The sequences of at most n members of S.
RECURSIVE SeqsOf(_, _)
SeqsOf(S, n) ==
  IF n = 0 THEN {<<>>}
  ELSE LET shorter == SeqsOf(S, n - 1)
       IN  shorter \cup {Append(q, e) : q \in {r \in shorter : Len(r) = n - 1},
                                        e \in S}

FilterLists ==
  {q \in SeqsOf(FilterPool, MaxEntries) :
     \A i, j \in DOMAIN q : i # j => q[i] # q[j]}

FilterTexts == {"", "x", "3"}

FilterValues == {<<>>, <<TreeNode(3)>>, <<FreeSoloNode("x", 1)>>}

\* What the caller's filterOptions prop can answer for the keys: any
\* subsequence of them, or all of them behind a node that is no key.
FilterAnswers(keys) ==
  {SelectSeq(keys, LAMBDA n : n \in kept) : kept \in SUBSET Range(keys)}
    \cup {<<TreeNode(0)>> \o keys}

InitFilter ==
  /\ props \in FilterProps
  /\ curBranch = 1
  /\ curValue \in FilterValues
  /\ inputValue = ""
  /\ selectedOption = NoOption
  /\ pathComp = PathIdle
  /\ optsComp = IdleOpts
  /\ valComp = valueResultMemo(curValue)
  /\ open = FALSE
  /\ ev = [op |-> "init"]

Filter(opts, stateInput, matched) ==
  /\ ev.op = "init"
  /\ LET r == filterOptions(opts, stateInput, matched)
     IN  /\ r.called \/ matched = <<>>
         /\ ev' = [op |-> "filterOptions", options |-> opts, inputValue |-> stateInput,
                   called |-> r.called, keys |-> r.keys, matched |-> matched,
                   noOptions |-> r.noOptions, result |-> r.result]
  /\ UNCHANGED <<props, open, valComp, curBranch, curValue, inputValue, selectedOption,
                 pathComp, optsComp>>

NextFilter ==
  \E opts \in FilterLists, stateInput \in FilterTexts :
    \E matched \in FilterAnswers(optionKeys(opts)) : Filter(opts, stateInput, matched)

SpecFilter == InitFilter /\ [][NextFilter]_vars

----------------------------------------------------------------------------
(* SpecVal: the value resolver.  The hook is rendered once with any held    *)
(* value, and the Promises of the parent lookups resolve in any order.      *)

ValProps ==
  {[DefaultProps EXCEPT !.tree = t, !.multiple = m, !.freeSolo = TRUE, !.deferParent = d] :
     t \in {1, 3}, m \in BOOLEAN, d \in DeferSets}

ValNodes ==
  {TreeNode(1), TreeNode(3), FreeSoloNode("x", NULL), FreeSoloNode("x", 3)}

\* The value prop: null or a node in single mode, an array in multiple mode.
HeldValues ==
  {q \in SeqsOf(ValNodes, MaxValues) : props.multiple \/ Len(q) <= 1}

InitVal ==
  /\ props \in ValProps
  /\ curValue \in HeldValues
  /\ curBranch = NULL
  /\ inputValue = ""
  /\ selectedOption = NoOption
  /\ pathComp = PathIdle
  /\ optsComp = IdleOpts
  /\ valComp = ValIdle
  /\ open = FALSE
  /\ ev = [op |-> "init"]

NextVal ==
  \/ Mount(NULL)
  \/ \E i \in DOMAIN valComp.items : ResolveValue(i)

SpecVal == InitVal /\ [][NextVal]_vars

----------------------------------------------------------------------------
(* Reference notions the claims are stated with. *)

\* p is the ancestor chain of tree node n: nearest ancestor first, root-most last.
IsAncestorChain(n, p) ==
  /\ \A i \in DOMAIN p : p[i] # NULL
  /\ IF Len(p) = 0
     THEN ParentOf(props.tree, n) = NULL
     ELSE /\ p[1] = ParentOf(props.tree, n)
          /\ \A i \in 1..(Len(p) - 1) : p[i + 1] = ParentOf(props.tree, p[i])
          /\ ParentOf(props.tree, p[Len(p)]) = NULL

\* The number of entries of list L for tree node c with the given type.
Count(L, c, type) ==
  Cardinality({i \in DOMAIN L : L[i].node = TreeNode(c) /\ L[i].type = type})

\* The children the lookup returns for the active branch.
ActiveChildren == ChildList(props.tree, curBranch)

PositionOf(c) == CHOOSE k \in DOMAIN ActiveChildren : ActiveChildren[k] = c

\* Every child of the active branch is classified in L as the option builder's
\* contract says.
ClassifiesChildren(L) ==
  \A k \in DOMAIN ActiveChildren :
    LET c == ActiveChildren[k]
    IN  /\ (Count(L, c, "DOWN_BRANCH") >= 1) <=> isBranch(c)
        /\ isBranch(c) =>
             /\ Count(L, c, "DOWN_BRANCH") = 1
             /\ Count(L, c, "LEAF") = (IF isBranchSelectable(c) THEN 1 ELSE 0)
        /\ ~isBranch(c) =>
             /\ Count(L, c, "LEAF") = 1
             /\ Count(L, c, "DOWN_BRANCH") = 0

\* The list the option builder assembled classifies every child correctly
\* (an auxiliary invariant: it is the list that classifies, not the result).
AssembledListClassifies ==
  optsComp.stage = "done" => ClassifiesChildren(optsComp.outer)

UpBranchRule(L) ==
  LET ups == {i \in DOMAIN L : L[i].type = "UP_BRANCH"}
  IN  IF curBranch = NULL
      THEN ups = {}
      ELSE /\ Cardinality(ups) = 1
           /\ \A i \in ups : /\ L[i].node = TreeNode(curBranch)
                             /\ IsAncestorChain(curBranch, L[i].path)

ChildOrder(L) ==
  \A i, j \in DOMAIN L :
    (/\ L[i].type # "UP_BRANCH"
     /\ L[j].type # "UP_BRANCH"
     /\ PositionOf(L[i].node.id) < PositionOf(L[j].node.id)) => i < j

UpFirstAndPairsAdjacent(L) ==
  /\ \A i \in DOMAIN L : L[i].type = "UP_BRANCH" => i = 1
  /\ \A i \in DOMAIN L :
       (L[i].type = "DOWN_BRANCH" /\ isBranchSelectable(L[i].node.id)) =>
         /\ i < Len(L)
         /\ L[i + 1] = [L[i] EXCEPT !.type = "LEAF"]

----------------------------------------------------------------------------
(* The claims. *)

\* C1: the result of the getOpts computation handed to the cache is a list
\* that holds, for every child c of the active branch, a DownBranch entry iff
\* isBranch(c), additionally a Leaf entry iff isBranch(c) and
\* isBranchSelectable(c), and exactly one Leaf entry and no DownBranch entry
\* iff not isBranch(c); for synchronous, deferred and mixed lookups.
C1_ResultClassifiesChildren ==
  optsComp.stage = "done" =>
    /\ optsComp.result.defined
    /\ ClassifiesChildren(optsComp.result.list)

\* C3: for the root branch the option builder emits no UpBranch entry; for
\* every non-null branch b, whatever its value, it emits exactly one UpBranch
\* entry whose node is b and whose path is the ancestor chain of b.
C3_OneUpBranchForEveryBranch ==
  optsComp.stage = "done" => UpBranchRule(optsComp.outer)

\* C4: the child entries appear in the order in which getChildren returned
\* the children, whatever the order in which the classifications completed.
C4_ChildrenInLookupOrder ==
  optsComp.stage = "done" => ChildOrder(optsComp.outer)

\* C5: the UpBranch entry, if present, is first, and the DownBranch entry of
\* a selectable branch is immediately followed by its own Leaf entry.
C5_UpFirstPairsAdjacent ==
  optsComp.stage = "done" => UpFirstAndPairsAdjacent(optsComp.outer)

\* C6: getPathToNode yields exactly the ancestor chain of a tree node (empty
\* when getParent answers nullish at once); for a FreeSoloNode it yields the
\* carried parent followed by that parent's ancestor chain, and the empty
\* sequence when the carried parent is null.
C6_PathIsAncestorChain ==
  (ev.op = "getPathToNode" /\ pathComp.status = "done") =>
    IF ev.toNode.free
    THEN IF ev.toNode.parent = NULL
         THEN pathComp.path = <<>>
         ELSE /\ Len(pathComp.path) >= 1
              /\ pathComp.path[1] = ev.toNode.parent
              /\ IsAncestorChain(ev.toNode.parent, Tail(pathComp.path))
    ELSE IsAncestorChain(ev.toNode.id, pathComp.path)

\* C6 witness: a node two levels deep resolved through deferred lookups.
C6_Witness ==
  /\ ev.op = "getPathToNode"
  /\ pathComp.status = "done"
  /\ pathComp.promise
  /\ ~ev.toNode.free
  /\ Len(pathComp.path) = 2

\* C2: once the options of the active branch have been resolved (free solo
\* off, nothing selected), the exposed options are the option builder's list;
\* for the tree root -> [1, 2], 1 -> [3] they are [DownBranch(1), Leaf(2)] at
\* the root and [UpBranch(1), Leaf(3)] at branch 1.
C2_ExposedOptionsAreBuilderList ==
  (optsComp.stage = "done" /\ ~props.freeSolo /\ curValue = <<>>) =>
    /\ options = optsComp.outer
    /\ (props.tree = 1 /\ props.selectable = {} /\ curBranch = NULL) =>
         options = <<InternalOption(TreeNode(1), "DOWN_BRANCH", <<>>),
                     InternalOption(TreeNode(2), "LEAF", <<>>)>>
    /\ (props.tree = 1 /\ props.selectable = {} /\ curBranch = 1) =>
         options = <<InternalOption(TreeNode(1), "UP_BRANCH", <<>>),
                     InternalOption(TreeNode(3), "LEAF", <<1>>)>>

----------------------------------------------------------------------------
(* Reference notions for the handlers.  In an action formula ev' is the     *)
(* call the step made.                                                      *)

\* The text a reset leaves in the input: empty in multiple mode or with
\* nothing selected, else the label of the selected node.
ResetText ==
  IF props.multiple \/ curValue = <<>> THEN "" ELSE defaultGetOptionLabel(curValue[1])

FiredBranchChange(calls, node, direction) ==
  \E i \in DOMAIN calls : calls[i] = Call("onBranchChange", TreeNode(node), "", direction, <<>>)

FiredBranchChangeOnce(calls, node, direction) ==
  /\ FiredBranchChange(calls, node, direction)
  /\ Cardinality({i \in DOMAIN calls : calls[i].fn = "onBranchChange"}) = 1

\* The step is a change event selecting a DOWN_BRANCH entry for node n.
DownSelected(n) ==
  /\ ev'.op = "onChange"
  /\ ev'.reason = "selectOption"
  /\ ev'.raw.option = InternalOption(TreeNode(n), "DOWN_BRANCH", ev'.raw.option.path)

\* The step is an ArrowRight key press with a DOWN_BRANCH entry for n highlighted.
ArrowRightOn(n) ==
  /\ ev'.op = "onKeyDown"
  /\ ev'.key = "ArrowRight"
  /\ ~ev'.composing
  /\ ev'.option = InternalOption(TreeNode(n), "DOWN_BRANCH", ev'.option.path)

\* The step is a change event selecting an UP_BRANCH entry the hook exposes.
UpSelected ==
  /\ ev'.op = "onChange"
  /\ ev'.reason = "selectOption"
  /\ ev'.raw.option.type = "UP_BRANCH"
  /\ ev'.raw.option \in Range(options)

\* The step is an ArrowLeft key press with an exposed UP_BRANCH entry highlighted.
ArrowLeftOnUp ==
  /\ ev'.op = "onKeyDown"
  /\ ev'.key = "ArrowLeft"
  /\ ~ev'.composing
  /\ ev'.option.type = "UP_BRANCH"
  /\ ev'.option \in Range(options)

\* The step is a change event whose newest raw value is not a branch entry.
NonBranchChange ==
  /\ ev'.op = "onChange"
  /\ ev'.raw.kind = "option" => ev'.raw.option.type = "LEAF"

BranchTypes == {"UP_BRANCH", "DOWN_BRANCH"}

----------------------------------------------------------------------------

\* C7 as stated: selecting a DownBranch entry for n by a selectOption change
\* event or by ArrowRight moves the branch to n, fires onBranchChange exactly
\* once with (n, "down"), and resets the input text.
C7_DownBranchResetsInput ==
  [][\A n \in Nodes :
       (DownSelected(n) \/ ArrowRightOn(n)) =>
         /\ curBranch' = n
         /\ FiredBranchChangeOnce(ev'.calls, n, "down")
         /\ inputValue' = ResetText]_vars

\* C7 amended: both ways of selecting a DownBranch entry for n move the
\* branch to n and fire onBranchChange exactly once with (n, "down"); the
\* ArrowRight key press resets the input text, the change event leaves the
\* input text as it was.
C7_DownBranchMovesBranch ==
  [][\A n \in Nodes :
       /\ DownSelected(n) =>
            /\ curBranch' = n
            /\ FiredBranchChangeOnce(ev'.calls, n, "down")
            /\ inputValue' = inputValue
       /\ ArrowRightOn(n) =>
            /\ curBranch' = n
            /\ FiredBranchChangeOnce(ev'.calls, n, "down")
            /\ inputValue' = ResetText]_vars

\* C7 witness: a change event selected a DownBranch entry in multiple mode
\* while text was typed; the branch moved and the text is still there.
C7_Witness ==
  /\ ev.op = "onChange"
  /\ ev.reason = "selectOption"
  /\ ev.raw.option.type = "DOWN_BRANCH"
  /\ curBranch = ev.raw.option.node.id
  /\ props.multiple
  /\ inputValue = "x"

\* C8: with active branch b, selecting or ArrowLeft-navigating on any
\* UpBranch entry the hook exposes moves the branch to the parent of b, or to
\* the root when b has no parent, and fires onBranchChange with that branch
\* and "up"; also for the entry exposed while the options are being resolved.
C8_UpBranchLeadsToParent ==
  [][(UpSelected \/ ArrowLeftOnUp) =>
       /\ curBranch # NULL
       /\ curBranch' = ParentOf(props.tree, curBranch)
       /\ FiredBranchChange(ev'.calls, ParentOf(props.tree, curBranch), "up")]_vars

\* C9: a change event that commits a non-branch entry (a Leaf entry, a
\* free-text string, a removal or a clear) updates the value through onChange
\* and setValue and leaves the branch alone: neither setBranch nor
\* onBranchChange is invoked.
C9_CommitLeavesBranch ==
  [][NonBranchChange =>
       /\ curBranch' = curBranch
       /\ UNCHANGED <<pathComp, optsComp>>
       /\ \A i \in DOMAIN ev'.calls : ev'.calls[i].fn \notin {"setBranch", "onBranchChange"}
       /\ \E i, j \in DOMAIN ev'.calls :
            /\ ev'.calls[i].fn = "onChange"
            /\ ev'.calls[j].fn = "setValue"
            /\ ev'.calls[i].value = curValue'
            /\ ev'.calls[j].value = curValue']_vars

\* C9 witness: a free-text string was committed in multiple mode inside a
\* branch, and the branch is still the one the string was created in.
C9_Witness ==
  /\ ev.op = "onChange"
  /\ ev.reason = "createOption"
  /\ props.multiple
  /\ curBranch # NULL
  /\ curValue = <<FreeSoloNode("x", curBranch)>>

\* C10: isOptionEqualToValue(a, b) is false whenever a or b has type
\* UP_BRANCH or DOWN_BRANCH, also for the same node and path and also when
\* the caller's override would answer true.
C10_BranchEntriesNeverEqual ==
  (/\ ev.op = "isOptionEqualToValue"
   /\ (ev.option.type \in BranchTypes \/ ev.value.type \in BranchTypes)) =>
    ev.result = FALSE

\* C10 witness: one DownBranch entry compared with itself under an override
\* that answers true for every pair.
C10_Witness ==
  /\ ev.op = "isOptionEqualToValue"
  /\ props.eqProp = "always"
  /\ ev.option = ev.value
  /\ ev.option.type = "DOWN_BRANCH"
  /\ ev.result = FALSE

----------------------------------------------------------------------------

\* The priority rules for two LEAF entries: the override on the two nodes if
\* one is supplied; else, with a FreeSoloNode on either side, both are
\* FreeSoloNodes of the same text and parent; else the same node and the same
\* path, position by position.
LeafEqual(a, b) ==
  IF props.eqProp # "none"
  THEN isOptionEqualToValueProp(a.node, b.node)
  ELSE IF a.node.free \/ b.node.free
       THEN /\ a.node.free
            /\ b.node.free
            /\ a.node.text = b.node.text
            /\ a.node.parent = b.node.parent
       ELSE /\ a.node.id = b.node.id
            /\ Len(a.path) = Len(b.path)
            /\ \A i \in DOMAIN a.path : a.path[i] = b.path[i]

----------------------------------------------------------------------------
(* The filter. *)

\* L has its UpBranch entry (if any) first, every tree-backed DownBranch
\* entry before every tree-backed Leaf entry, and every FreeSoloNode entry
\* after all tree-backed entries.
FilterOrdered(L) ==
  /\ \A i \in DOMAIN L : L[i].type = "UP_BRANCH" => i = 1
  /\ \A i, j \in DOMAIN L :
       (/\ ~L[i].node.free /\ L[i].type = "DOWN_BRANCH"
        /\ ~L[j].node.free /\ L[j].type = "LEAF") => i < j
  /\ \A i, j \in DOMAIN L : (~L[i].node.free /\ L[j].node.free) => i < j

\* The single selection reads as the query text and is equal to no entry of L.
SelectionShownButAbsent(L, text) ==
  /\ ~props.multiple
  /\ curValue # <<>>
  /\ defaultGetOptionLabel(curValue[1]) = text
  /\ \A i \in DOMAIN L : ~isOptionEqualToValue(L[i], value[1])

\* C12: for every input entry list and every query state, the output of
\* filterOptions has the UpBranch entry first, the DownBranch entries before
\* the tree-backed Leaf entries, and the FreeSoloNode entries last.
C12_FilterOutputOrdered ==
  ev.op = "filterOptions" => FilterOrdered(ev.result)

\* C12, amended: the output of filterOptions is ordered in that way unless
\* the single selection reads as the query text and is equal to no input
\* entry; the output is then the input list unchanged.
C12_FilterOutputOrderedUnlessBypassed ==
  ev.op = "filterOptions" =>
    IF SelectionShownButAbsent(ev.options, ev.inputValue)
    THEN ev.result = ev.options
    ELSE FilterOrdered(ev.result)

\* An unordered list with entries of all four groups went through the
\* caller's filter and came out with all four.
C12_Witness ==
  /\ ev.op = "filterOptions"
  /\ ev.called
  /\ ~FilterOrdered(ev.options)
  /\ curValue # <<>>
  /\ \A g \in {"upBranch", "freeSoloOptions", "branchOptionsMap", "leafOptionsMap"} :
       \E i \in DOMAIN ev.result : filterGroup(ev.result[i]) = g

\* C13: filterOptions keeps every FreeSoloNode entry and the UpBranch entry
\* of its input whatever the caller's filter answers, calls that filter with
\* tree nodes only, and returns no entry that was not in its input.
C13_PinnedEntriesKept ==
  ev.op = "filterOptions" =>
    /\ \A i \in DOMAIN ev.options :
         (ev.options[i].node.free \/ ev.options[i].type = "UP_BRANCH")
           => \E j \in DOMAIN ev.result : ev.result[j] = ev.options[i]
    /\ \A k \in DOMAIN ev.keys : ~ev.keys[k].free
    /\ \A j \in DOMAIN ev.result : ev.result[j] \in Range(ev.options)

\* The caller's filter was asked about two tree nodes and matched none: the
\* UpBranch entry and the FreeSoloNode entry are all that is returned.
C13_Witness ==
  /\ ev.op = "filterOptions"
  /\ ev.called
  /\ Len(ev.keys) = 2
  /\ ev.matched = <<>>
  /\ Len(ev.result) = 2
  /\ ev.result[1].type = "UP_BRANCH"
  /\ ev.result[2].node.free

----------------------------------------------------------------------------
(* The menu. *)

\* The external onClose was invoked by the step.
FiredClose(calls) == \E i \in DOMAIN calls : calls[i].fn = "onClose"

\* C14: an onClose call with reason selectOption that follows the change
\* event of that selection leaves the menu as it is, the external onClose
\* not invoked, exactly when the entry committed by the change event is an
\* UpBranch or DownBranch entry; otherwise open becomes false and the
\* external onClose is invoked, whichever entry was highlighted or clicked
\* before.
C14_CloseSuppressedIffBranchCommitted ==
  [][(/\ ev.op = "onChange" /\ ev.reason = "selectOption"
      /\ ev'.op = "onClose" /\ ev'.reason = "selectOption")
       => IF ev.raw.option.type \in BranchTypes
          THEN open' = open /\ ~FiredClose(ev'.calls)
          ELSE open' = FALSE /\ FiredClose(ev'.calls)]_vars

----------------------------------------------------------------------------
(* Change events. *)

\* The calls of a commit of values, reported to the caller with reason.
CommitCalls(values, reason) ==
  <<Call("onChange", TreeNode(NULL), "", reason, values),
    Call("setValue", TreeNode(NULL), "", "", values)>>

\* C15: a change event with reason blur changes the selection and the branch
\* as the same event with reason createOption (raw value a free-text string)
\* or selectOption (otherwise) does, and differs only in calling the
\* external onChange with reason "blur"; single and multiple mode.
C15_BlurIsCreateOrSelect ==
  [][(ev'.op = "onChange" /\ ev'.reason = "blur") =>
       LET same == IF ev'.raw.kind = "string" THEN "createOption" ELSE "selectOption"
           r == handleChange(ev'.prior, ev'.raw, same, FALSE)
       IN  IF r.branch
           THEN /\ curBranch' = r.node
                /\ curValue' = curValue
                /\ ev'.calls = branchCalls(r.node, r.direction)
           ELSE /\ curValue' = r.values
                /\ curBranch' = curBranch
                /\ r.reason = same
                /\ ev'.calls = CommitCalls(r.values, "blur")]_vars

\* In multiple mode, on a branch, a blur committed the typed text behind
\* the entries already held.
C15_Witness ==
  /\ ev.op = "onChange"
  /\ ev.reason = "blur"
  /\ ev.raw.kind = "string"
  /\ props.multiple
  /\ curBranch # NULL
  /\ Len(curValue) = Len(ev.prior) + 1
  /\ curValue[Len(curValue)] = FreeSoloNode(ev.raw.str, curBranch)

\* C16: with free solo in multiple mode, a non-empty input text that no
\* selected FreeSoloNode carries, and the options of the active branch
\* resolved, the list filterOptions returns for the exposed options holds a
\* Leaf entry for FreeSoloNode(input text, active branch), of a node that no
\* other entry has, whatever the caller's filter matches.
C16_FreeSoloEntryOffered ==
  (/\ props.multiple /\ props.freeSolo
   /\ inputValue # ""
   /\ \A i \in DOMAIN curValue : ~(curValue[i].free /\ curValue[i].text = inputValue)
   /\ pathComp.status = "done"
   /\ optsComp.stage = "done")
    => \A matched \in FilterAnswers(optionKeys(options)) :
         LET out == filterOptions(options, inputValue, matched).result
         IN  \E i \in DOMAIN out :
               /\ out[i].type = "LEAF"
               /\ out[i].node = FreeSoloNode(inputValue, curBranch)
               /\ \A j \in DOMAIN out : j # i => out[j].node # out[i].node

\* C17: a change event with reason createOption commits the FreeSoloNode of
\* the raw string and of the branch active at the event: alone in single
\* mode, behind the nodes held before, in their order, in multiple mode; the
\* branch does not change.
C17_CreateCommitsFreeSoloNode ==
  [][(ev'.op = "onChange" /\ ev'.reason = "createOption") =>
       LET created == [free |-> TRUE, id |-> NULL, text |-> ev'.raw.str, parent |-> curBranch]
       IN  /\ curValue' = IF props.multiple THEN Append(curValue, created) ELSE <<created>>
           /\ curBranch' = curBranch]_vars

\* In multiple mode, inside a branch, a typed string was committed behind a
\* tree node already held.
C17_Witness ==
  /\ ev.op = "onChange"
  /\ ev.reason = "createOption"
  /\ props.multiple
  /\ curBranch # NULL
  /\ Len(curValue) = 2
  /\ ~curValue[1].free
  /\ curValue[2].free /\ curValue[2].text = ev.raw.str /\ curValue[2].parent = curBranch

----------------------------------------------------------------------------
(* The value resolver. *)

\* The nodes getParent is asked about on the way up from node.
RECURSIVE WalkFrom(_)
WalkFrom(n) == IF n = NULL THEN {} ELSE {n} \cup WalkFrom(ParentOf(props.tree, n))

LookupsOf(node) == IF node.free THEN WalkFrom(node.parent) ELSE WalkFrom(node.id)

\* p is resolvePath(node).
IsResolvedPath(node, p) ==
  IF ~node.free THEN IsAncestorChain(node.id, p)
  ELSE IF node.parent = NULL THEN p = <<>>
  ELSE /\ Len(p) >= 1
       /\ p[1] = node.parent
       /\ IsAncestorChain(node.parent, Tail(p))

\* C18: the value resolver answers null for an absent selection in single
\* mode and the empty sequence for an empty one in multiple mode; otherwise
\* one Leaf entry per held node, in the order held, each with the resolved
\* path of its node; its answer is deferred iff the path resolution of some
\* held node is deferred, and is there only once all of them have resolved.
C18_ValueResolver ==
  ev.op # "init" =>
    /\ curValue = <<>> =>
         /\ ~valComp.promise
         /\ valueResult.data.defined = props.multiple
         /\ valueResult.data.list = <<>>
    /\ valComp.promise <=>
         \E i \in DOMAIN curValue : LookupsOf(curValue[i]) \cap props.deferParent # {}
    /\ (\E i \in DOMAIN valComp.items : valComp.items[i].status = "pending")
         => ~valueResult.data.defined
    /\ (/\ curValue # <<>>
        /\ \A i \in DOMAIN valComp.items : valComp.items[i].status = "done")
         => /\ valueResult.data.defined
            /\ Len(valueResult.data.list) = Len(curValue)
            /\ \A i \in DOMAIN curValue :
                 /\ valueResult.data.list[i].node = curValue[i]
                 /\ valueResult.data.list[i].type = "LEAF"
                 /\ IsResolvedPath(curValue[i], valueResult.data.list[i].path)

\* Two nodes are held in multiple mode; the deferred path of the second has
\* resolved before that of the first, and there is no answer yet.
C18_Witness ==
  /\ props.multiple
  /\ Len(valComp.items) = 2
  /\ valComp.items[1].status = "pending"
  /\ valComp.items[2].status = "done"
  /\ valComp.items[2].promise
  /\ Len(valComp.items[2].path) >= 1
  /\ ~valueResult.data.defined

\* The Leaf entries the option builder assembled for the active branch.
ListedLeaves ==
  IF optsComp.stage = "done"
  THEN {e \in Range(optsComp.outer) : e.type = "LEAF"}
  ELSE {}

\* C19: with getParent consistent with getChildren, once a Leaf entry e the
\* option builder lists has been committed and the value resolver has
\* answered, the resolver's entry for e.node has e's path, element by
\* element, and isOptionEqualToValue(e, that entry) is true.
C19_CommittedLeafRoundTrip ==
  \A e \in ListedLeaves :
    \A i \in DOMAIN curValue :
      (curValue[i] = e.node /\ valueResult.data.defined) =>
        LET resolved == valueResult.data.list[i]
        IN  /\ Len(resolved.path) = Len(e.path)
            /\ \A k \in DOMAIN e.path : resolved.path[k] = e.path[k]
            /\ isOptionEqualToValue(e, resolved)

\* A Leaf entry listed two levels below the root was committed and the value
\* resolver has answered for it.
C19_Witness ==
  /\ ev.op = "onChange"
  /\ ev.reason = "selectOption"
  /\ ev.raw.option \in ListedLeaves
  /\ Len(ev.raw.option.path) = 2
  /\ curValue # <<>>
  /\ curValue[Len(curValue)] = ev.raw.option.node
  /\ valueResult.data.defined

----------------------------------------------------------------------------
(* The trampoline. *)

\* Some value the getPathToNode generator yields for the active branch is a
\* Promise.
PathYieldsPromise ==
  curBranch # NULL /\ WalkFrom(curBranch) \cap props.deferParent # {}

\* Some value the parseChildNode generator of child c yields is a Promise.
ChildYieldsPromise(c) ==
  \/ IF props.isBranchProp THEN c \in props.deferBranch ELSE c \in props.deferChildren
  \/ isBranch(c) /\ c \in props.deferSel

\* Some value the getOpts generator yields for the active branch is a Promise.
OptsYieldsPromise ==
  \/ PathYieldsPromise
  \/ curBranch \in props.deferChildren
  \/ \E c \in Range(ActiveChildren) : ChildYieldsPromise(c)

\* C20: asyncOrAsyncBlock returns a value that is no Promise iff no value
\* its generator yields is a Promise; with getParent, getChildren, isBranch
\* and isBranchSelectable all synchronous, getPathToNode and the option
\* builder have completed when they return.
C20_ImmediateIffNothingDeferred ==
  ev.op # "init" =>
    /\ pathComp.promise <=> PathYieldsPromise
    /\ optsComp.promise <=> OptsYieldsPromise
    /\ (/\ props.deferParent = {} /\ props.deferChildren = {}
        /\ props.deferBranch = {} /\ props.deferSel = {})
         => /\ pathComp.status = "done" /\ ~pathComp.promise
            /\ optsComp.stage = "done" /\ ~optsComp.promise

\* A synchronous caller: the builder returned the assembled list of a branch
\* below the root at once.
C20_Witness ==
  /\ ev.op = "render"
  /\ props.deferParent = {} /\ props.deferChildren = {}
  /\ props.deferBranch = {} /\ props.deferSel = {}
  /\ curBranch # NULL
  /\ pathComp.path # <<>>
  /\ optsComp.stage = "done"
  /\ ~optsComp.promise
  /\ Len(optsComp.outer) >= 2

----------------------------------------------------------------------------
(* The loading flag. *)

\* C23: loadingOptions is true in every state in which the path resolution
\* of the active branch, the option resolution or the path resolution of
\* the selected value is pending.
C23_LoadingWhileAnyPending ==
  (\/ pathComp.status = "pending"
   \/ optsComp.stage \in {"wait1", "wait2"}
   \/ \E i \in DOMAIN valComp.items : valComp.items[i].status = "pending")
    => loadingOptions

----------------------------------------------------------------------------
(* Failures. *)

\* The computation ended in a failure handed to its caller.
Failed(comp) == comp.status \in {"thrown", "rejected"}

\* C22: when a step of a trampolined computation fails, the failure reaches
\* the caller of asyncOrAsyncBlock: raised out of the call if no Promise was
\* yielded up to and including the failing step, and as the rejection of the
\* Promise it returned otherwise; the failing step is invoked once and no
\* step runs after it.
C22_FailureSurfacesOnce ==
  ev.op = "getPathToNode" =>
    LET asked == pathComp.asked
        failing == {j \in DOMAIN asked : asked[j] \in props.failParent}
        yielded == {j \in DOMAIN asked : asked[j] \in props.deferParent}
        answered == IF pathComp.status = "pending" THEN Len(asked) - 1 ELSE Len(asked)
    IN  /\ Failed(pathComp) <=> \E j \in failing : j <= answered
        /\ Failed(pathComp) =>
             /\ failing = {Len(asked)}
             /\ pathComp.status = "thrown" <=> yielded = {}
             /\ pathComp.status = "rejected" <=> pathComp.promise
        /\ failing \subseteq {Len(asked)}

\* A lookup raised after an earlier one had answered through a Promise: the
\* Promise the caller holds is rejected.
C22_Witness ==
  /\ ev.op = "getPathToNode"
  /\ pathComp.status = "rejected"
  /\ Len(pathComp.asked) >= 2
  /\ pathComp.asked[1] \in props.deferParent
  /\ pathComp.asked[Len(pathComp.asked)] \notin props.deferParent

----------------------------------------------------------------------------
(* SpecFail: the option builder over callers one of whose lookups fails:    *)
(* by the rejection of its Promise where it answers through one, by         *)
(* raising where it answers at once.                                        *)

FailProps ==
  LET Callers ==
        {[DefaultProps EXCEPT !.tree = t, !.isBranchProp = o, !.selectable = {1, 3},
                              !.deferParent = dp, !.deferChildren = dc,
                              !.deferBranch = db, !.deferSel = ds] :
           t \in {1, 2}, o \in BOOLEAN, dp \in {{}, Nodes}, dc \in ChildDeferSets,
           db \in {{}, Nodes}, ds \in {{}, Nodes}}
  IN  {[p EXCEPT !.failChildren = {n}] : p \in Callers, n \in Nodes \cup {NULL}}
        \cup {[p EXCEPT !.failBranch = {n}] : p \in Callers, n \in Nodes}
        \cup {[p EXCEPT !.failSel = {n}] : p \in Callers, n \in Nodes}

InitFail == props \in FailProps /\ Unmounted

SpecFail == InitFail /\ [][NextOpts]_vars

\* The getChildren Promise of the active branch has rejected.
ChildrenRejected ==
  /\ optsComp.stage # "idle"
  /\ curBranch \in props.failChildren \cap props.deferChildren
  /\ ~optsComp.childrenPending

\* The classification of some child has rejected.
ClassificationRejected ==
  \E i \in DOMAIN optsComp.pc : optsComp.pc[i] = "rejected"

\* C21: once the getChildren Promise of the active branch, or the isBranch
\* or isBranchSelectable classification of any child, has rejected, the
\* result of the option builder is a rejected Promise and stays one while
\* the other classifications complete in any order: no list, and no partial
\* list of the children classified so far, is its resolved value.
C21_RejectionFailsTheWholeResult ==
  (ChildrenRejected \/ ClassificationRejected) =>
    /\ optsComp.stage = "rejected"
    /\ optsComp.promise
    /\ ~optsComp.result.defined
    /\ ~optionsResult.data.defined

\* One classification has rejected while another child has been classified
\* and pushed and a third lookup completed after the rejection.
C21_Witness ==
  /\ ev.op = "resolve"
  /\ ClassificationRejected
  /\ optsComp.inner # <<>>
  /\ \E i \in DOMAIN optsComp.pc : optsComp.pc[i] = "done"
  /\ \A i \in DOMAIN optsComp.pc : optsComp.pc[i] \in {"done", "rejected"}

\* The classification the documentation gives a node: the override's answer
\* where one is supplied, else whether getChildren answers with children.
BranchByChildren(n) ==
  IF props.isBranchProp
  THEN isBranchProp(n)
  ELSE ~getChildren(n).nullish /\ getChildren(n).list # <<>>

\* C24: in a completed option resolution a child of the active branch is
\* classified a branch (a DownBranch entry was assembled for it) iff the
\* isBranch override answers true for it or, without an override, iff
\* getChildren answers for it with a result that is neither nullish nor
\* empty, for synchronous and deferred lookups alike.
C24_BranchIffOverrideOrNonEmptyChildren ==
  optsComp.stage = "done" =>
    \A i \in DOMAIN ActiveChildren :
      (\E o \in Range(optsComp.outer) :
         o.type = "DOWN_BRANCH" /\ o.node = TreeNode(ActiveChildren[i]))
        <=> BranchByChildren(ActiveChildren[i])

\* C25: filterOptions returns the list it was given, unchanged, without
\* calling the external filter predicate when the hook is in single mode, a
\* selection is held, the label of the selection is the input text and no
\* entry of the list equals the selection under isOptionEqualToValue; in
\* every other case (multiple mode, an entry equal to the selection, a label
\* that differs from the input text, no selection) the external predicate
\* is called.
C25_BypassIffStaleSelection ==
  ev.op = "filterOptions" =>
    LET stale == /\ ~props.multiple
                 /\ value # <<>>
                 /\ getOptionLabel(value[1]) = ev.inputValue
                 /\ ~\E o \in Range(ev.options) : isOptionEqualToValue(o, value[1])
    IN  /\ stale => ~ev.called /\ ev.result = ev.options
        /\ ~stale => ev.called

\* The bypass taken over a list of several entries, a branch entry of the
\* selected node among them.
C25_Witness ==
  /\ ev.op = "filterOptions"
  /\ ~ev.called
  /\ value # <<>>
  /\ Len(ev.options) >= 3
  /\ ev.result = ev.options
  /\ \E o \in Range(ev.options) : o.type = "DOWN_BRANCH"

----------------------------------------------------------------------------
(* SpecWalk: getPathToNode over the trees and over the cyclic lookup, each  *)
(* getParent Promise resolving in the end (the Promises of the claim are    *)
(* ones that resolve, and their then callbacks run as microtasks).          *)

WalkProps ==
  {[DefaultProps EXCEPT !.tree = t, !.deferParent = d] :
     t \in Trees \cup {CyclicLookup}, d \in SUBSET Nodes}

InitWalk == props \in WalkProps /\ Unmounted

SpecWalk == InitWalk /\ [][NextPath]_vars /\ WF_vars(PathResolve)

\* The node reached from n by k parent lookups.
RECURSIVE Climb(_, _)
Climb(n, k) ==
  IF n = NULL \/ k = 0 THEN n ELSE Climb(ParentOf(props.tree, n), k - 1)

\* The parent lookups from n never answer null.
Endless(n) == n # NULL /\ Climb(n, MaxNode + 2) # NULL

\* depth(n): the number of ancestors of n.
Depth(n) == Cardinality({k \in 1..(MaxNode + 2) : Climb(n, k) # NULL})

FirstAsked(toNode) == IF toNode.free THEN toNode.parent ELSE toNode.id

Walking == ev.op = "getPathToNode" /\ pathComp.status = "pending"

\* C26: where the parent lookups from the target end, getPathToNode
\* completes for any mix of synchronous and deferred answers, and for a tree
\* node n it has then invoked getParent exactly depth(n) + 1 times, once on
\* n and once on each of its ancestors in turn; where they cycle it never
\* completes.
C26_WalkEndsIffLookupsEnd ==
  /\ [](ev.op = "getPathToNode" /\ pathComp.status = "done" /\ ~ev.toNode.free =>
          /\ Len(pathComp.asked) = Depth(ev.toNode.id) + 1
          /\ pathComp.asked = <<ev.toNode.id>> \o pathComp.path)
  /\ (Walking /\ ~Endless(FirstAsked(ev.toNode))) ~> (pathComp.status = "done")
  /\ [](ev.op = "getPathToNode" /\ Endless(FirstAsked(ev.toNode)) =>
          pathComp.status # "done")

\* A walk into the cycle that is still asking after more lookups than there
\* are nodes, some of them answered through Promises.
C26_Witness ==
  /\ ev.op = "getPathToNode"
  /\ props.tree = CyclicLookup
  /\ Endless(FirstAsked(ev.toNode))
  /\ pathComp.status = "running"
  /\ ev.resolved >= 2
  /\ Len(pathComp.asked) > MaxNode + 1

\* The step is a change event, selectOption or blur, whose newest raw value
\* is a branch entry.
BranchEntryChange ==
  /\ ev'.op = "onChange"
  /\ ev'.reason \in {"selectOption", "blur"}
  /\ ev'.raw.kind = "option"
  /\ ev'.raw.option.type \in BranchTypes

\* C27: a change event with reason selectOption, or blur re-dispatched as
\* selectOption, whose newest entry is an UpBranch or DownBranch entry leaves
\* the selection value as it was, in single and in multiple mode: neither
\* setValue nor the external onChange is invoked, only onBranchChange and
\* setBranch are.
C27_BranchEntryCommitsNothing ==
  [][BranchEntryChange =>
       /\ curValue' = curValue
       /\ valComp' = valComp
       /\ \A i \in DOMAIN ev'.calls : ev'.calls[i].fn \in {"onBranchChange", "setBranch"}
       /\ \E i \in DOMAIN ev'.calls : ev'.calls[i].fn = "setBranch"]_vars

\* A blur change carried an UpBranch entry in multiple mode while a value
\* was held; the value is still held.
C27_Witness ==
  /\ ev.op = "onChange"
  /\ ev.reason = "blur"
  /\ ev.raw.kind = "option"
  /\ ev.raw.option.type = "UP_BRANCH"
  /\ props.multiple
  /\ curValue # <<>>

\* C28: without an override isOptionEqualToValue answers the same for (a, b)
\* and for (b, a), whatever the types of the two entries, and answers true
\* for a Leaf entry compared with itself, tree-backed or FreeSoloNode.
C28_SymmetricAndReflexiveOnLeaves ==
  (ev.op = "isOptionEqualToValue" /\ props.eqProp = "none") =>
    /\ ev.result = isOptionEqualToValue(ev.value, ev.option)
    /\ (ev.option = ev.value /\ ev.option.type = "LEAF") => ev.result

\* A FreeSoloNode Leaf entry compared with itself, and a tree-backed Leaf
\* entry compared with the entry of the same node under a longer path.
C28_Witness ==
  /\ ev.op = "isOptionEqualToValue"
  /\ props.eqProp = "none"
  /\ ev.option.type = "LEAF"
  /\ ev.value.type = "LEAF"
  /\ \/ ev.option = ev.value /\ ev.option.node.free /\ ev.result
     \/ /\ ~ev.option.node.free
        /\ ev.option.node = ev.value.node
        /\ Len(ev.option.path) < Len(ev.value.path)
        /\ ~ev.result

----------------------------------------------------------------------------
(* SpecDefer: the value resolver, and getPathToNode under it, over callers  *)
(* whose getParent gives the same answers and answers through a Promise for *)
(* any subset of the nodes.                                                 *)

DeferProps ==
  {[DefaultProps EXCEPT !.tree = t, !.multiple = m, !.freeSolo = TRUE, !.deferParent = d] :
     t \in Trees, m \in BOOLEAN, d \in SUBSET Nodes}

InitDefer ==
  /\ props \in DeferProps
  /\ curValue \in HeldValues
  /\ curBranch = NULL
  /\ inputValue = ""
  /\ selectedOption = NoOption
  /\ pathComp = PathIdle
  /\ optsComp = IdleOpts
  /\ valComp = ValIdle
  /\ open = FALSE
  /\ ev = [op |-> "init"]

SpecDefer == InitDefer /\ [][NextVal]_vars

\* What a getParent that answers at once leads getPathToNode to: the
\* ancestors of n, nearest first.
RECURSIVE AncestorsOf(_)
AncestorsOf(n) ==
  IF n = NULL \/ ParentOf(props.tree, n) = NULL
  THEN <<>>
  ELSE <<ParentOf(props.tree, n)>> \o AncestorsOf(ParentOf(props.tree, n))

SynchronousPath(node) ==
  IF ~node.free THEN AncestorsOf(node.id)
  ELSE IF node.parent = NULL THEN <<>>
  ELSE <<node.parent>> \o AncestorsOf(node.parent)

\* C29: whichever of the parent lookups answer through a Promise, the path
\* getPathToNode resolves to for a node is the one it returns when every
\* lookup answers at once, handed over in a Promise iff one of the lookups
\* it makes is deferred; and once the value resolver has its answer, its
\* entries are the Leaf entries of the held nodes with those paths.
C29_DeferralLeavesPathsAlone ==
  ev.op # "init" =>
    /\ \A i \in DOMAIN valComp.items :
         valComp.items[i].status = "done" =>
           /\ valComp.items[i].path = SynchronousPath(valComp.nodes[i])
           /\ valComp.items[i].promise <=>
                LookupsOf(valComp.nodes[i]) \cap props.deferParent # {}
    /\ valueCompleted =>
         valueEntries =
           [i \in DOMAIN curValue |->
              InternalOption(curValue[i], "LEAF", SynchronousPath(curValue[i]))]

\* Two nodes held, both paths resolved through Promises, one of them of two
\* ancestors of which one answered at once and the other was deferred.
C29_Witness ==
  /\ ev.op = "resolve"
  /\ Len(valComp.items) = 2
  /\ valueCompleted
  /\ \A i \in DOMAIN valComp.items : valComp.items[i].promise
  /\ \E i \in DOMAIN valComp.items :
       /\ Len(valComp.items[i].path) >= 2
       /\ \E j, k \in DOMAIN valComp.items[i].asked :
            /\ valComp.items[i].asked[j] \in props.deferParent
            /\ valComp.items[i].asked[k] \notin props.deferParent

\* The step is a call of onInputChange that stores newText and hands it to
\* the external onInputChange.
InputChangedTo(newText) ==
  /\ inputValue' = newText
  /\ \E i \in DOMAIN ev'.calls :
       ev'.calls[i] = Call("onInputChange", TreeNode(NULL), newText, ev'.reason, <<>>)
  /\ \A i \in DOMAIN ev'.calls : ev'.calls[i].text = newText

\* C30: a call of onInputChange with reason "reset" while the entry last
\* highlighted or clicked is an UpBranch or DownBranch entry stores, and
\* hands to the external onInputChange, the empty string in multiple mode
\* or when no value is selected, and the label of the selected value in
\* single mode; with any other reason, or with a Leaf entry or none last
\* highlighted, it stores and hands on the text it was given.
C30_ResetOnBranchKeepsValueLabel ==
  [][ev'.op = "onInputChange" =>
       IF ev'.reason = "reset" /\ selectedOption.type \in BranchTypes
       THEN InputChangedTo(ResetText)
       ELSE InputChangedTo(ev'.text)]_vars

\* A reset with the text "x" arrived in single mode while a DownBranch entry
\* was highlighted and a value was selected: the text is the value's label.
C30_Witness ==
  /\ ev.op = "onInputChange"
  /\ ev.reason = "reset"
  /\ ev.text = "x"
  /\ selectedOption.type = "DOWN_BRANCH"
  /\ ~props.multiple
  /\ curValue # <<>>
  /\ inputValue = defaultGetOptionLabel(curValue[1])
  /\ inputValue # defaultGetOptionLabel(selectedOption.node)
====
